---------------------------- MODULE Spec2Model ----------------------------
(***************************************************************************)
(* Huffman-Compression: the bit streams (BitInputStream, BitOutputStream), *)
(* the code tree (HCNode, HCTree) and the two programs (compress,          *)
(* uncompress), as state machines.                                         *)
(*                                                                         *)
(* A byte is an integer 0..255; the 8-bit buffer `buf` of a bit stream is  *)
(* the integer whose binary digit i is buf[i].  A pointer to an HCNode is  *)
(* the node's index in the tree's node store, 0 being the null pointer.    *)
(***************************************************************************)
EXTENDS Integers, Sequences, FiniteSets, TLC

VARIABLES
    pc,         \* position of the caller (the harness or a program's main)
    ret,        \* ret[w]: where the caller continues when build of tree w returns
    freqs,      \* the frequency table given to hufftree.build
    freqs2,     \* the frequency table given to hufftree2.build
    hufftree,   \* HCTree of the encoding side: [nodes, leaves, root]
    hufftree2,  \* HCTree of the decoding side
    queue,      \* the priority_queue of the build in progress (node pointers)
    encoded,    \* the symbols passed to encode so far, in order
    decoded,    \* one record per decode call that returned, in order
    fin,        \* compress: the input file stream
    fsize,      \* compress: size_t fsize
    symbols,    \* compress: unsigned int symbols
    idx,        \* index of the encode loop of compress, of the decode loop of uncompress
    fsize2,     \* uncompress: size_t fsize
    restored,   \* uncompress: the bytes written to the output file
    bos,        \* BitOutputStream: [buf, bufi, out], out = bytes in the sink
    bis,        \* BitInputStream:  [buf, bufi, in],  in = the byte source
    args,       \* the values the caller is going to pass to writeBit, cyclically
    written,    \* the values passed to writeBit so far, in order
    flushes,    \* number of calls of BitOutputStream::flush by the caller
    reads       \* the values returned by readBit so far, in order

bitVars == <<bos, bis, args, written, flushes, reads>>
treeVars == <<ret, freqs, freqs2, hufftree, hufftree2, queue, encoded, decoded>>
progVars == <<fin, fsize, symbols, idx, fsize2, restored>>
vars == <<pc, bitVars, treeVars, progVars>>

(***************************************************************************)
(* Bounds of the model.                                                    *)
(***************************************************************************)
MaxBits == 16        \* writeBit calls in one run of the writer harness
MaxFlush == 2        \* flush calls by the caller in one run
CycleLen == 2        \* period of the argument stream of the writer harness
MaxPairBits == 9     \* writeBit calls in one run of the writer/reader harness
MaxPastEnd == 2      \* readBit calls after the last bit of the source
MaxFreq == 2         \* largest count in a frequency table of the tree harness
MaxEnc == 3          \* encode calls in one run of the tree harness
MaxDec == 4          \* decode calls in one run of the tree harness
MaxFile == 3         \* bytes in the input file of compress

\* Values a caller passes to writeBit( int bit ): 0, 1, and values with more bits set.
BitArgs == {0, 1, 2}

EOF == -1            \* std::char_traits<char>::eof(), what istream::get returns at end

(***************************************************************************)
(* Bits of an 8-bit buffer.                                                *)
(***************************************************************************)
Pow2(i) == IF i = 0 THEN 1 ELSE IF i = 1 THEN 2 ELSE IF i = 2 THEN 4
           ELSE IF i = 3 THEN 8 ELSE IF i = 4 THEN 16 ELSE IF i = 5 THEN 32
           ELSE IF i = 6 THEN 64 ELSE 128

\* buf[ i ]
BitOf(buf, i) == (buf \div Pow2(i)) % 2

\* buf[ i ] = bit
SetBit(buf, i, bit) == buf - BitOf(buf, i) * Pow2(i) + bit * Pow2(i)

(***************************************************************************)
(* std::istream over a byte sequence: [data, pos, eof, fail].              *)
(***************************************************************************)
IStream(data) == [data |-> data, pos |-> 0, eof |-> FALSE, fail |-> FALSE]

\* in.get(): the next byte, or EOF with eofbit and failbit set.
IStreamGet(in) ==
    IF in.eof \/ in.fail
    THEN [in |-> [in EXCEPT !.fail = TRUE], c |-> EOF]
    ELSE IF in.pos < Len(in.data)
         THEN [in |-> [in EXCEPT !.pos = @ + 1], c |-> in.data[in.pos + 1]]
         ELSE [in |-> [in EXCEPT !.eof = TRUE, !.fail = TRUE], c |-> EOF]

(***************************************************************************)
(* BitOutputStream                                                         *)
(***************************************************************************)
\* BitOutputStream( ostream& ): an empty buffer over the sink.
NewBitOutputStream(out) == [buf |-> 0, bufi |-> 0, out |-> out]

flush_NoEmptyCheck(b) ==
    [buf |-> 0, bufi |-> 0, out |-> Append(b.out, b.buf)]

\* void BitOutputStream::flush()
flush(b) ==
    [buf |-> 0, bufi |-> 0,
     out |-> IF b.bufi > 0 THEN Append(b.out, b.buf) ELSE b.out]

writeBit_DropsFullBuffer(b, bit) ==
    LET b1 == IF b.bufi > 7 THEN [b EXCEPT !.buf = 0, !.bufi = 0] ELSE b
        lsb == bit % 2
    IN  [b1 EXCEPT !.buf = SetBit(b1.buf, 7 - b1.bufi, lsb), !.bufi = b1.bufi + 1]

writeBit_NoMask(b, bit) ==
    LET b1 == IF b.bufi > 7 THEN flush(b) ELSE b
        lsb == IF bit # 0 THEN 1 ELSE 0
    IN  [b1 EXCEPT !.buf = SetBit(b1.buf, 7 - b1.bufi, lsb), !.bufi = b1.bufi + 1]

\* void BitOutputStream::writeBit( int bit )
writeBit(b, bit) ==
    LET b1 == IF b.bufi > 7 THEN flush(b) ELSE b
        lsb == bit % 2
    IN  [b1 EXCEPT !.buf = SetBit(b1.buf, 7 - b1.bufi, lsb), !.bufi = b1.bufi + 1]

(***************************************************************************)
(* BitInputStream                                                          *)
(***************************************************************************)
\* BitInputStream( istream& ): an exhausted buffer, so the first read refills.
NewBitInputStream(in) == [buf |-> 0, bufi |-> 8, in |-> in]

\* int BitInputStream::readByte()
readByte(b) == IStreamGet(b.in)

readBit_LsbFirst(b) ==
    IF b.bufi > 7
    THEN LET g == readByte(b)
         IN  IF g.c = EOF
             THEN [bis |-> [b EXCEPT !.in = g.in], bit |-> -1]
             ELSE [bis |-> [buf |-> g.c, bufi |-> 1, in |-> g.in],
                   bit |-> BitOf(g.c, 0)]
    ELSE [bis |-> [b EXCEPT !.bufi = b.bufi + 1], bit |-> BitOf(b.buf, b.bufi)]

readBit_ZeroAtEof(b) ==
    IF b.bufi > 7
    THEN LET g == readByte(b)
         IN  IF g.c = EOF
             THEN [bis |-> [b EXCEPT !.in = g.in, !.buf = 0, !.bufi = 1], bit |-> 0]
             ELSE [bis |-> [buf |-> g.c, bufi |-> 1, in |-> g.in],
                   bit |-> BitOf(g.c, 7)]
    ELSE [bis |-> [b EXCEPT !.bufi = b.bufi + 1], bit |-> BitOf(b.buf, 7 - b.bufi)]

\* int BitInputStream::readBit(): [bis |-> the stream afterwards, bit |-> the result]
readBit(b) ==
    IF b.bufi > 7
    THEN LET g == readByte(b)
         IN  IF g.c = EOF
             THEN [bis |-> [b EXCEPT !.in = g.in], bit |-> -1]
             ELSE [bis |-> [buf |-> g.c, bufi |-> 1, in |-> g.in],
                   bit |-> BitOf(g.c, 7)]
    ELSE [bis |-> [b EXCEPT !.bufi = b.bufi + 1], bit |-> BitOf(b.buf, 7 - b.bufi)]

(***************************************************************************)
(* HCNode                                                                  *)
(***************************************************************************)
\* The byte values the model tracks, of the 256: the null byte, 'A'..'D' and
\* 0xFF.  Every other entry of a frequency table is zero and every other
\* entry of `leaves` is null.
Symbols == {0, 65, 66, 67, 68, 255}

SetMin(S) == CHOOSE m \in S : \A x \in S : m <= x

\* HCNode( count, symbol, c0 = 0, c1 = 0, p = 0 )
NewHCNode(count, symbol, c0, c1) ==
    [count |-> count, symbol |-> symbol, c0 |-> c0, c1 |-> c1, p |-> 0]

HCNodeLess_MaxFirst(a, b) ==
    IF a.count # b.count THEN a.count < b.count ELSE a.symbol < b.symbol

HCNodeLess_CountOnly(a, b) == a.count > b.count

\* bool HCNode::operator<( const HCNode& other ) const
HCNodeLess(a, b) ==
    IF a.count # b.count THEN a.count > b.count ELSE a.symbol < b.symbol

\* HCNodePtrComp: compares the nodes two pointers point to.
HCNodePtrComp(nodes, lhs, rhs) == HCNodeLess(nodes[lhs], nodes[rhs])

(***************************************************************************)
(* HCTree                                                                  *)
(***************************************************************************)
\* HCTree(): no root, no leaves.
NewHCTree == [nodes |-> <<>>, leaves |-> [s \in Symbols |-> 0], root |-> 0]

\* build, lines 30-35: one leaf per non-zero count, in ascending symbol order.
\* `todo` holds the indices i the loop has not reached yet.
RECURSIVE makeLeaves(_, _, _, _)
makeLeaves(t, q, f, todo) ==
    IF todo = {} THEN [tree |-> t, queue |-> q]
    ELSE LET i == SetMin(todo)
         IN  IF f[i] # 0
             THEN LET id == Len(t.nodes) + 1
                      t1 == [t EXCEPT !.nodes = Append(@, NewHCNode(f[i], i, 0, 0)),
                                      !.leaves[i] = id]
                  IN  makeLeaves(t1, q \cup {id}, f, todo \ {i})
             ELSE makeLeaves(t, q, f, todo \ {i})

\* queue.top(): an element that the comparator puts before no other element.
Tops(nodes, q) == {m \in q : \A e \in q : ~HCNodePtrComp(nodes, m, e)}

mergeNodes_ZeroSymbol(t, first, sec) ==
    LET id == Len(t.nodes) + 1
        parent == NewHCNode(t.nodes[first].count + t.nodes[sec].count, 0, first, sec)
    IN  [t EXCEPT !.nodes = Append([@ EXCEPT ![first].p = id, ![sec].p = id], parent)]

mergeNodes_FirstCount(t, first, sec) ==
    LET id == Len(t.nodes) + 1
        parent == NewHCNode(t.nodes[first].count, t.nodes[first].symbol, first, sec)
    IN  [t EXCEPT !.nodes = Append([@ EXCEPT ![first].p = id, ![sec].p = id], parent)]

mergeNodes_NoSecParent(t, first, sec) ==
    LET id == Len(t.nodes) + 1
        parent == NewHCNode(t.nodes[first].count + t.nodes[sec].count,
                            t.nodes[first].symbol, first, sec)
    IN  [t EXCEPT !.nodes = Append([@ EXCEPT ![first].p = id], parent)]

\* build, lines 52-58: the parent of the two nodes extracted.
mergeNodes(t, first, sec) ==
    LET id == Len(t.nodes) + 1
        parent == NewHCNode(t.nodes[first].count + t.nodes[sec].count,
                            t.nodes[first].symbol, first, sec)
    IN  [t EXCEPT !.nodes = Append([@ EXCEPT ![first].p = id, ![sec].p = id], parent)]

\* encode, lines 114-121: the vector `code`, filled from the leaf up to the root.
RECURSIVE pathToRoot(_, _)
pathToRoot(t, node) ==
    LET p == t.nodes[node].p
    IN  IF p = 0 THEN <<>>
        ELSE <<(IF node = t.nodes[p].c0 THEN 0 ELSE 1)>> \o pathToRoot(t, p)

Reverse(seq) == [i \in 1..Len(seq) |-> seq[Len(seq) + 1 - i]]

encodeBits_NoAbsentCheck(t, symbol) ==
    LET node == t.leaves[symbol]
    IN  IF node = 0 THEN <<0>>
        ELSE IF t.nodes[node].p = 0 THEN <<0>>
        ELSE Reverse(pathToRoot(t, node))

encodeBits_NotReversed(t, symbol) ==
    LET node == t.leaves[symbol]
    IN  IF node = 0 THEN <<>>
        ELSE IF t.nodes[node].p = 0 THEN <<0>>
        ELSE pathToRoot(t, node)

encodeBits_NoSingleCase(t, symbol) ==
    LET node == t.leaves[symbol]
    IN  IF node = 0 THEN <<>> ELSE Reverse(pathToRoot(t, node))

\* encode: the values it passes to out.writeBit, in order.
encodeBits(t, symbol) ==
    LET node == t.leaves[symbol]
    IN  IF node = 0 THEN <<>>
        ELSE IF t.nodes[node].p = 0 THEN <<0>>
        ELSE Reverse(pathToRoot(t, node))

RECURSIVE writeBits(_, _)
writeBits(out, bits) ==
    IF bits = <<>> THEN out ELSE writeBits(writeBit(out, Head(bits)), Tail(bits))

\* void HCTree::encode( byte symbol, BitOutputStream& out ) const
encode(t, symbol, out) == writeBits(out, encodeBits(t, symbol))

\* encode, lines 98-126, seen from the tree: the method is const and assigns
\* only its locals `node` and `code`; the tree it leaves behind.
encodeThis(t, symbol) == t

\* bitset<1> bit = in.readBit(): the lowest bit of the int, so -1 becomes 1.
Bitset1(v) == v % 2

\* decode, lines 132-141, from `node` on.  nbits counts the readBit calls and
\* eof tells whether one of them returned -1.
RECURSIVE decodeFrom(_, _, _, _, _)
decodeFrom(t, node, in, nbits, eof) ==
    IF t.nodes[node].c0 # 0 /\ t.nodes[node].c1 # 0
    THEN LET r == readBit(in)
             bit == Bitset1(r.bit)
         IN  decodeFrom(t, IF bit = 1 THEN t.nodes[node].c1 ELSE t.nodes[node].c0,
                        r.bis, nbits + 1, eof \/ r.bit = -1)
    ELSE [bis |-> in, result |-> t.nodes[node].symbol, nbits |-> nbits,
          eof |-> eof, crash |-> FALSE]

\* What reading node->c0 through a null `node` can do: the process is killed,
\* or the read yields garbage and some byte is returned as the symbol.
NullRootOutcomes(in) ==
    {[bis |-> in, result |-> 0, nbits |-> 0, eof |-> FALSE, crash |-> TRUE]}
    \cup {[bis |-> in, result |-> g, nbits |-> 0, eof |-> FALSE, crash |-> FALSE] :
            g \in {0, 255}}

\* int HCTree::decode( BitInputStream& in ) const: the possible outcomes.
decode(t, in) ==
    IF t.root = 0 THEN NullRootOutcomes(in)
    ELSE {decodeFrom(t, t.root, in, 0, FALSE)}

decodeThis_WalksRoot(t, in) ==
    IF t.root = 0 THEN t
    ELSE LET o == decodeFrom(t, t.root, in, 0, FALSE)
         IN  [t EXCEPT !.root = IF o.nbits = 0 THEN t.root
                                 ELSE t.leaves[o.result]]

\* decode, lines 128-142, seen from the tree: the method is const and walks
\* down with the local `node`, root itself is only read; the tree it leaves
\* behind.
decodeThis(t, in) == t

(***************************************************************************)
(* The writer harness: a caller that owns one BitOutputStream over an      *)
(* empty sink and calls writeBit and flush in any order.  The values it    *)
(* passes are the cyclic repetition of `args`.                             *)
(***************************************************************************)
ArgCycles == [1..CycleLen -> BitArgs]

NextArg == args[(Len(written) % Len(args)) + 1]

NoStream == [buf |-> 0, bufi |-> 0]

\* The tree is not used by the bit-stream harnesses.
NoTrees ==
    /\ ret = <<"none", "none">>
    /\ freqs = [s \in Symbols |-> 0]
    /\ freqs2 = [s \in Symbols |-> 0]
    /\ hufftree = NewHCTree
    /\ hufftree2 = NewHCTree
    /\ queue = {}
    /\ encoded = <<>>
    /\ decoded = <<>>

\* The programs are not run by the bit-stream and tree harnesses.
NoPrograms ==
    /\ fin = IStream(<<>>)
    /\ fsize = 0
    /\ symbols = 0
    /\ idx = 0
    /\ fsize2 = 0
    /\ restored = <<>>

WriterInit ==
    /\ pc = "write"
    /\ args \in ArgCycles
    /\ bos = NewBitOutputStream(<<>>)
    /\ bis = NoStream
    /\ written = <<>>
    /\ flushes = 0
    /\ reads = <<>>
    /\ NoTrees
    /\ NoPrograms

WriteBit ==
    /\ pc = "write"
    /\ Len(written) < MaxBits
    /\ bos' = writeBit(bos, NextArg)
    /\ written' = Append(written, NextArg)
    /\ UNCHANGED <<pc, bis, args, flushes, reads, treeVars, progVars>>

Flush ==
    /\ pc = "write"
    /\ flushes < MaxFlush
    /\ bos' = flush(bos)
    /\ flushes' = flushes + 1
    /\ UNCHANGED <<pc, bis, args, written, reads, treeVars, progVars>>

WriterNext == WriteBit \/ Flush

WriterSpec == WriterInit /\ [][WriterNext]_vars

\* C10: on a fresh BitOutputStream, the flush() that follows n writeBit calls
\* leaves exactly ceil(n/8) bytes in the sink (8 -> 1, 9 -> 2, 16 -> 2), and a
\* flush() on a non-empty buffer emits exactly one more byte.
C10_FlushLeavesCeilBytes ==
    [][ (flushes' = flushes + 1) =>
          /\ (flushes = 0 => Len(bos'.out) = (Len(written) + 7) \div 8)
          /\ (bos.bufi > 0 => Len(bos'.out) = Len(bos.out) + 1) ]_vars

C10_Witness ==
    /\ flushes = 1 /\ bos.bufi = 0 /\ Len(written) = 16 /\ Len(bos.out) = 2

(***************************************************************************)
(* The writer/reader harness: a caller writes any values, flushes once,    *)
(* then opens a BitInputStream over the emitted bytes and reads bits, also *)
(* past the end of the data.                                               *)
(***************************************************************************)
PairInit ==
    /\ pc = "write"
    /\ args = <<>>
    /\ bos = NewBitOutputStream(<<>>)
    /\ bis = NoStream
    /\ written = <<>>
    /\ flushes = 0
    /\ reads = <<>>
    /\ NoTrees
    /\ NoPrograms

PairWriteBit ==
    /\ pc = "write"
    /\ Len(written) < MaxPairBits
    /\ \E v \in BitArgs :
          /\ bos' = writeBit(bos, v)
          /\ written' = Append(written, v)
    /\ UNCHANGED <<pc, bis, args, flushes, reads, treeVars, progVars>>

\* bos.flush(), then BitInputStream bis( in ) over the bytes written.
PairFlushAndOpen ==
    /\ pc = "write"
    /\ bos' = flush(bos)
    /\ flushes' = flushes + 1
    /\ bis' = NewBitInputStream(IStream(bos'.out))
    /\ pc' = "read"
    /\ UNCHANGED <<args, written, reads, treeVars, progVars>>

ReadBit ==
    /\ pc = "read"
    /\ Len(reads) < 8 * Len(bis.in.data) + MaxPastEnd
    /\ bis' = readBit(bis).bis
    /\ reads' = Append(reads, readBit(bis).bit)
    /\ UNCHANGED <<pc, bos, args, written, flushes, treeVars, progVars>>

PairNext == PairWriteBit \/ PairFlushAndOpen \/ ReadBit

PairSpec == PairInit /\ [][PairNext]_vars

\* C6: once all 8*n bits of an n-byte source have been read, readBit returns
\* EndOfStream (-1), leaves the cache byte and the position unchanged, and so
\* does every later call.
C6_EofIsRepeatable ==
    [][ (pc = "read" /\ Len(reads) >= 8 * Len(bis.in.data)) =>
          /\ reads' = Append(reads, -1)
          /\ bis'.buf = bis.buf
          /\ bis'.bufi = bis.bufi ]_vars

C6_Witness ==
    /\ pc = "read"
    /\ Len(bis.in.data) = 1
    /\ Len(reads) = 10
    /\ reads[9] = -1 /\ reads[10] = -1
    /\ \A i \in 1..8 : reads[i] \in {0, 1}

(***************************************************************************)
(* The tree harness: a caller builds hufftree and hufftree2 from the same  *)
(* frequency table, encodes any symbols through one BitOutputStream,       *)
(* flushes it, opens a BitInputStream over the emitted bytes (or over      *)
(* other bytes) and calls decode.                                          *)
(***************************************************************************)
\* The symbols the harness gives a count to, and asks to encode.
TableSymbols == {0, 65, 66, 255}

FreqTables ==
    {f \in [Symbols -> 0..MaxFreq] : \A s \in Symbols \ TableSymbols : f[s] = 0}

\* Byte sources other than the bytes just emitted.
ExtraSources == {<<255>>}

BuildPc(w) == IF w = 1 THEN "build1" ELSE "build2"
MergePc(w) == IF w = 1 THEN "merge1" ELSE "merge2"
TreeOf(w) == IF w = 1 THEN hufftree ELSE hufftree2
FreqsOf(w) == IF w = 1 THEN freqs ELSE freqs2

SetTree(w, t) ==
    IF w = 1 THEN hufftree' = t /\ UNCHANGED hufftree2
             ELSE hufftree2' = t /\ UNCHANGED hufftree

TreeInit ==
    /\ pc = "build1"
    /\ ret = <<"build2", "encode">>
    /\ freqs \in FreqTables
    /\ freqs2 = freqs
    /\ hufftree = NewHCTree
    /\ hufftree2 = NewHCTree
    /\ queue = {}
    /\ encoded = <<>>
    /\ decoded = <<>>
    /\ bos = NewBitOutputStream(<<>>)
    /\ bis = NoStream
    /\ args = <<>>
    /\ written = <<>>
    /\ flushes = 0
    /\ reads = <<>>
    /\ NoPrograms

\* build, lines 25-42: the leaves; an empty queue sets root to NULL and returns.
BuildLeaves(w) ==
    /\ pc = BuildPc(w)
    /\ LET r == makeLeaves(TreeOf(w), {}, FreqsOf(w), Symbols)
       IN  IF r.queue = {}
           THEN /\ SetTree(w, [r.tree EXCEPT !.root = 0])
                /\ queue' = {}
                /\ pc' = ret[w]
           ELSE /\ SetTree(w, r.tree)
                /\ queue' = r.queue
                /\ pc' = MergePc(w)
    /\ UNCHANGED <<ret, freqs, freqs2, encoded, decoded, bitVars, progVars>>

\* build, lines 45-61: one iteration of the merge loop.
BuildMerge(w) ==
    /\ pc = MergePc(w)
    /\ Cardinality(queue) > 1
    /\ \E first \in Tops(TreeOf(w).nodes, queue) :
       \E sec \in Tops(TreeOf(w).nodes, queue \ {first}) :
          /\ SetTree(w, mergeNodes(TreeOf(w), first, sec))
          /\ queue' = (queue \ {first, sec}) \cup {Len(TreeOf(w).nodes) + 1}
    /\ UNCHANGED <<pc, ret, freqs, freqs2, encoded, decoded, bitVars, progVars>>

\* build, line 63: the last node queued is the root.
BuildFinish(w) ==
    /\ pc = MergePc(w)
    /\ Cardinality(queue) = 1
    /\ \E top \in Tops(TreeOf(w).nodes, queue) :
          SetTree(w, [TreeOf(w) EXCEPT !.root = top])
    /\ queue' = {}
    /\ pc' = ret[w]
    /\ UNCHANGED <<ret, freqs, freqs2, encoded, decoded, bitVars, progVars>>

Encode ==
    /\ pc = "encode"
    /\ Len(encoded) < MaxEnc
    /\ \E symbol \in TableSymbols :
          /\ bos' = encode(hufftree, symbol, bos)
          /\ hufftree' = encodeThis(hufftree, symbol)
          /\ encoded' = Append(encoded, symbol)
    /\ UNCHANGED <<pc, ret, freqs, freqs2, hufftree2, queue, decoded,
                   bis, args, written, flushes, reads, progVars>>

FlushAndOpen ==
    /\ pc = "encode"
    /\ bos' = flush(bos)
    /\ flushes' = flushes + 1
    /\ \E data \in {bos'.out} \cup ExtraSources :
          bis' = NewBitInputStream(IStream(data))
    /\ pc' = "decode"
    /\ UNCHANGED <<args, written, reads, treeVars, progVars>>

Decode ==
    /\ pc = "decode"
    /\ Len(decoded) < MaxDec
    /\ \E o \in decode(hufftree2, bis) :
          IF o.crash
          THEN pc' = "crashed" /\ UNCHANGED <<bis, decoded, hufftree2>>
          ELSE /\ bis' = o.bis
               /\ hufftree2' = decodeThis(hufftree2, bis)
               /\ decoded' = Append(decoded, [result |-> o.result,
                                              nbits |-> o.nbits, eof |-> o.eof])
               /\ pc' = pc
    /\ UNCHANGED <<ret, freqs, freqs2, hufftree, queue, encoded,
                   bos, args, written, flushes, reads, progVars>>

Next ==
    \/ \E w \in {1, 2} : BuildLeaves(w)
    \/ \E w \in {1, 2} : BuildMerge(w)
    \/ \E w \in {1, 2} : BuildFinish(w)
    \/ Encode
    \/ FlushAndOpen
    \/ Decode

Spec == TreeInit /\ [][Next]_vars

(***************************************************************************)
(* Claims about the tree harness.                                          *)
(***************************************************************************)
\* The frequency table of a byte sequence.
FreqTableOf(S) ==
    [s \in Symbols |-> Cardinality({i \in 1..Len(S) : S[i] = s})]

Results(d) == [i \in 1..Len(d) |-> d[i].result]

IsPrefix(a, b) == Len(a) <= Len(b) /\ SubSeq(b, 1, Len(a)) = a

NonZero(f) == {s \in Symbols : f[s] # 0}

Built(w) == IF w = 1 THEN pc \notin {"build1", "merge1"}
                     ELSE pc \in {"encode", "decode", "crashed"}

\* The reader was opened over exactly the bytes the writer emitted.
ReadsEmitted == pc = "decode" /\ bis.in.data = bos.out

\* C1: round trip.  When the table is the frequency table of the sequence S
\* that was encoded, and the reader runs over the emitted bytes, the first
\* |S| decode results are S.
C1_RoundTrip ==
    (ReadsEmitted /\ freqs = FreqTableOf(encoded) /\ Len(decoded) = Len(encoded))
        => Results(decoded) = encoded

C1_Witness ==
    /\ ReadsEmitted
    /\ freqs = FreqTableOf(encoded)
    /\ encoded = <<65, 0, 255>>
    /\ Len(decoded) = 3

\* C4: a decode call during which readBit returned end-of-stream returns -1,
\* never a symbol.
C4_EofFailsDecode ==
    \A i \in 1..Len(decoded) : decoded[i].eof => decoded[i].result = -1

\* C5: with an all-zero table the root is absent, and decode reports -1
\* without crashing, whatever the source holds.
C5_EmptyTreeDecode ==
    (Built(2) /\ NonZero(freqs2) = {}) =>
        /\ hufftree2.root = 0
        /\ pc # "crashed"
        /\ \A i \in 1..Len(decoded) : decoded[i].result = -1

\* C7: two trees built from the same frequency table give every symbol the
\* same bit sequence.
C7_BuildDeterministic ==
    (Built(2) /\ freqs = freqs2) =>
        \A s \in Symbols : encodeBits(hufftree, s) = encodeBits(hufftree2, s)

\* Equal counts among three leaves: the tie-break decides the shape.
C7_Witness ==
    /\ Built(2)
    /\ freqs = freqs2
    /\ freqs[0] = 1 /\ freqs[65] = 1 /\ freqs[255] = 1 /\ freqs[66] = 0
    /\ encodeBits(hufftree2, 0) = <<0>>
    /\ encodeBits(hufftree, 255) = <<1, 0>>
    /\ encodeBits(hufftree, 65) = <<1, 1>>

\* C8: in a tree built from a table with at least two non-zero entries, the
\* code of one symbol of the table is never a prefix of, nor equal to, the
\* code of another.
C8_PrefixFree ==
    (Built(1) /\ Cardinality(NonZero(freqs)) >= 2) =>
        \A s, u \in NonZero(freqs) :
            s # u => ~IsPrefix(encodeBits(hufftree, s), encodeBits(hufftree, u))

C8_Witness ==
    /\ Built(1)
    /\ Cardinality(NonZero(freqs)) = 4
    /\ \E s, u \in NonZero(freqs) :
          Len(encodeBits(hufftree, s)) = 1 /\ Len(encodeBits(hufftree, u)) = 3

OneSymbol(f, s) == NonZero(f) = {s}

IsLoneLeaf(t, s) ==
    /\ t.root # 0
    /\ t.root = t.leaves[s]
    /\ t.nodes[t.root] = [count |-> t.nodes[t.root].count, symbol |-> s,
                          c0 |-> 0, c1 |-> 0, p |-> 0]

\* C9: with exactly one non-zero entry s, root is the leaf of s and has no
\* parent, encode(s) writes exactly one bit, 0, and decode returns s without
\* reading a bit.
C9_SingleSymbol ==
    \A s \in Symbols :
        (OneSymbol(freqs, s) /\ freqs2 = freqs) =>
            /\ Built(1) => /\ IsLoneLeaf(hufftree, s)
                           /\ encodeBits(hufftree, s) = <<0>>
                           /\ encode(hufftree, s, bos) = writeBit(bos, 0)
            /\ Built(2) => IsLoneLeaf(hufftree2, s)
            /\ pc = "decode" =>
                  /\ decode(hufftree2, bis) =
                        {[bis |-> bis, result |-> s, nbits |-> 0,
                          eof |-> FALSE, crash |-> FALSE]}
                  /\ \A i \in 1..Len(decoded) :
                        decoded[i] = [result |-> s, nbits |-> 0, eof |-> FALSE]

C9_Witness ==
    /\ OneSymbol(freqs, 65)
    /\ pc = "decode"
    /\ encoded = <<65, 65>>
    /\ bos.out = <<0>>
    /\ Len(decoded) = 2
    /\ bis.in.pos = 0

(***************************************************************************)
(* compress and uncompress                                                 *)
(***************************************************************************)
\* (byte) c: the conversion of an int to unsigned char.
ToByte(c) == c % 256

RECURSIVE UIntBytes(_, _)
UIntBytes(n, k) == IF k = 0 THEN <<>> ELSE <<n % 256>> \o UIntBytes(n \div 256, k - 1)

\* The sizeof( int ) = 4 bytes of an int in memory (two's complement, low byte first).
IntBytes(n) ==
    IF n >= 0 THEN UIntBytes(n, 4)
    ELSE [k \in 1..4 |-> 255 - UIntBytes(-(n + 1), 4)[k]]

\* The int that 4 bytes of memory hold.
BytesInt(b) ==
    IF b[4] < 128
    THEN b[1] + 256 * b[2] + 65536 * b[3] + 16777216 * b[4]
    ELSE -((255 - b[1]) + 256 * (255 - b[2]) + 65536 * (255 - b[3])
           + 16777216 * (255 - b[4])) - 1

\* compress, lines 80-82: the header, one int per entry in ascending order.
\* The model writes the entries of the tracked byte values.
RECURSIVE writeHeader(_, _, _)
writeHeader(out, f, todo) ==
    IF todo = {} THEN out
    ELSE LET s == SetMin(todo)
         IN  writeHeader(out \o IntBytes(f[s]), f, todo \ {s})

\* in.read( (char *) &x, sizeof( int ) ): [in, x]; a short read leaves x alone.
IStreamReadInt(in, x) ==
    IF ~in.eof /\ ~in.fail /\ in.pos + 4 <= Len(in.data)
    THEN [in |-> [in EXCEPT !.pos = @ + 4],
          x |-> BytesInt(SubSeq(in.data, in.pos + 1, in.pos + 4))]
    ELSE [in |-> [in EXCEPT !.pos = Len(in.data), !.eof = TRUE, !.fail = TRUE],
          x |-> x]

RECURSIVE readHeader_LastOnly(_, _, _, _)
readHeader_LastOnly(in, f, size, todo) ==
    IF todo = {} THEN [in |-> in, freqs |-> f, fsize |-> size]
    ELSE LET s == SetMin(todo)
             r == IStreamReadInt(in, f[s])
         IN  readHeader_LastOnly(r.in, [f EXCEPT ![s] = r.x],
                                 IF r.x # 0 THEN r.x ELSE size, todo \ {s})

\* uncompress, lines 32-35: [in, freqs, fsize] after the header loop.
RECURSIVE readHeader(_, _, _, _)
readHeader(in, f, size, todo) ==
    IF todo = {} THEN [in |-> in, freqs |-> f, fsize |-> size]
    ELSE LET s == SetMin(todo)
             r == IStreamReadInt(in, f[s])
         IN  readHeader(r.in, [f EXCEPT ![s] = r.x], size + r.x, todo \ {s})

\* Byte values of the input files, and the files.
FileBytes == {0, 65, 66, 255}

Files == UNION {[1..n -> FileBytes] : n \in 0..MaxFile}

ZeroFreqs == [s \in Symbols |-> 0]

ProgInit ==
    /\ pc = "scan"
    /\ ret = <<"header", "decodeLoop">>
    /\ \E file \in Files : fin = IStream(file)
    /\ freqs = ZeroFreqs
    /\ fsize = 0
    /\ symbols = 0
    /\ idx = 0
    /\ hufftree = NewHCTree
    /\ freqs2 = ZeroFreqs
    /\ fsize2 = 0
    /\ hufftree2 = NewHCTree
    /\ restored = <<>>
    /\ queue = {}
    /\ bos = NewBitOutputStream(<<>>)
    /\ bis = NoStream
    /\ encoded = <<>>
    /\ decoded = <<>>
    /\ args = <<>>
    /\ written = <<>>
    /\ flushes = 0
    /\ reads = <<>>

\* compress, lines 46-67: one turn of the frequency scan; when the loop ends,
\* the tree is built unless fsize is 0.
ScanStep ==
    /\ pc = "scan"
    /\ LET g == IStreamGet(fin)
           cnext == ToByte(g.c)
       IN  /\ fin' = g.in
           /\ IF cnext = 0 \/ g.in.eof
              THEN /\ pc' = IF fsize # 0 THEN "build1" ELSE "header"
                   /\ UNCHANGED <<freqs, fsize, symbols>>
              ELSE /\ freqs' = [freqs EXCEPT ![cnext] = @ + 1]
                   /\ fsize' = fsize + 1
                   /\ symbols' = IF freqs[cnext] + 1 = 1 THEN symbols + 1 ELSE symbols
                   /\ pc' = pc
    /\ UNCHANGED <<ret, freqs2, hufftree, hufftree2, queue, encoded, decoded,
                   idx, fsize2, restored, bitVars>>

\* compress, lines 77-88: the header, then the input is rewound.
WriteHeader ==
    /\ pc = "header"
    /\ bos' = NewBitOutputStream(writeHeader(<<>>, freqs, Symbols))
    /\ fin' = [fin EXCEPT !.pos = 0, !.eof = FALSE, !.fail = FALSE]
    /\ idx' = 0
    /\ pc' = "encodeLoop"
    /\ UNCHANGED <<bis, args, written, flushes, reads, treeVars,
                   fsize, symbols, fsize2, restored>>

\* compress, lines 91-94: one turn of the encode loop.
EncodeStep ==
    /\ pc = "encodeLoop"
    /\ idx < fsize
    /\ LET g == IStreamGet(fin)
           cnext == ToByte(g.c)
       IN  /\ fin' = g.in
           /\ bos' = encode(hufftree, cnext, bos)
           /\ hufftree' = encodeThis(hufftree, cnext)
           /\ encoded' = Append(encoded, cnext)
    /\ idx' = idx + 1
    /\ UNCHANGED <<pc, ret, freqs, freqs2, hufftree2, queue, decoded,
                   bis, args, written, flushes, reads,
                   fsize, symbols, fsize2, restored>>

\* compress, lines 96-100: the last byte is flushed and the files are closed.
FlushAndClose ==
    /\ pc = "encodeLoop"
    /\ idx >= fsize
    /\ bos' = flush(bos)
    /\ flushes' = flushes + 1
    /\ pc' = "uncompress"
    /\ UNCHANGED <<bis, args, written, reads, treeVars, progVars>>

\* uncompress, lines 24-50, on the file compress wrote: the header is read, the
\* tree is built unless fsize is 0, and the bit stream continues after the header.
ReadHeader ==
    /\ pc = "uncompress"
    /\ LET h == readHeader(IStream(bos.out), ZeroFreqs, 0, Symbols)
       IN  /\ freqs2' = h.freqs
           /\ fsize2' = h.fsize
           /\ bis' = NewBitInputStream(h.in)
           /\ pc' = IF h.fsize # 0 THEN "build2" ELSE "decodeLoop"
    /\ idx' = 0
    /\ UNCHANGED <<ret, freqs, hufftree, hufftree2, queue, encoded, decoded,
                   bos, args, written, flushes, reads, fin, fsize, symbols, restored>>

\* uncompress, lines 54-57: one turn of the decode loop.
DecodeStep ==
    /\ pc = "decodeLoop"
    /\ idx < fsize2
    /\ \E o \in decode(hufftree2, bis) :
          IF o.crash
          THEN pc' = "crashed" /\ UNCHANGED <<bis, decoded, restored, idx, hufftree2>>
          ELSE /\ bis' = o.bis
               /\ hufftree2' = decodeThis(hufftree2, bis)
               /\ decoded' = Append(decoded, [result |-> o.result,
                                              nbits |-> o.nbits, eof |-> o.eof])
               /\ restored' = Append(restored, ToByte(o.result))
               /\ idx' = idx + 1
               /\ pc' = pc
    /\ UNCHANGED <<ret, freqs, freqs2, hufftree, queue, encoded,
                   bos, args, written, flushes, reads, fin, fsize, symbols, fsize2>>

\* uncompress, lines 59-62.
Finish ==
    /\ pc = "decodeLoop"
    /\ idx >= fsize2
    /\ pc' = "done"
    /\ UNCHANGED <<bitVars, treeVars, progVars>>

ProgNext ==
    \/ ScanStep
    \/ \E w \in {1, 2} : BuildLeaves(w)
    \/ \E w \in {1, 2} : BuildMerge(w)
    \/ \E w \in {1, 2} : BuildFinish(w)
    \/ WriteHeader
    \/ EncodeStep
    \/ FlushAndClose
    \/ ReadHeader
    \/ DecodeStep
    \/ Finish

ProgSpec == ProgInit /\ [][ProgNext]_vars

\* The input file of compress.
File == fin.data

Occurrences(S, b) == Cardinality({k \in 1..Len(S) : S[k] = b})

\* C2: uncompress of compress of a file is the file, null bytes included.
C2_FileRestored ==
    pc = "done" => restored = File

\* C3: after the frequency scan, freqs[b] is the number of occurrences of b in
\* the input for every b, and fsize is the number of bytes of the input.
C3_ScanCountsEveryByte ==
    pc \notin {"scan"} =>
        /\ \A b \in Symbols : freqs[b] = Occurrences(File, b)
        /\ fsize = Len(File)

(***************************************************************************)
(* Further claims about the bit streams.                                   *)
(***************************************************************************)
\* C11: a flush() on an empty buffer (position 0: a fresh writer, or right
\* after a flush) emits no byte; every flush leaves the buffer empty, so a
\* second consecutive flush emits nothing more.
C11_EmptyFlushEmitsNothing ==
    [][ (flushes' = flushes + 1) =>
          /\ (bos.bufi = 0 => bos'.out = bos.out)
          /\ bos'.bufi = 0 /\ bos'.buf = 0 ]_vars

\* One bit written and two flushes: one of the flushes met an empty buffer.
C11_Witness ==
    /\ flushes = 2 /\ Len(written) = 1 /\ bos.bufi = 0 /\ Len(bos.out) = 1

\* (byte >> k) & 1
ShiftAnd1(byte, k) == (byte \div (2 ^ k)) % 2

\* C12: over an n-byte source, the i-th readBit call (i = 0 .. 8n-1) of a fresh
\* reader returns (byte[i div 8] >> (7 - i mod 8)) & 1: most significant bit
\* first, in source order, each bit once.
C12_MsbFirstInOrder ==
    pc = "read" =>
        \A k \in 1..Len(reads) :
            k <= 8 * Len(bis.in.data) =>
                reads[k] = ShiftAnd1(bis.in.data[((k - 1) \div 8) + 1],
                                     7 - ((k - 1) % 8))

C12_Witness ==
    /\ pc = "read"
    /\ bis.in.data = <<170, 128>>
    /\ Len(reads) = 16

\* C13: after writeBit(v_1) .. writeBit(v_n) and flush(), a reader over the
\* emitted bytes returns v_1 & 1 .. v_n & 1, then 0 up to the next byte
\* boundary, then EndOfStream.
C13_ReaderSeesWrittenBits ==
    pc = "read" =>
        \A k \in 1..Len(reads) :
            reads[k] = IF k <= Len(written) THEN written[k] % 2
                       ELSE IF k <= 8 * ((Len(written) + 7) \div 8) THEN 0
                       ELSE -1

C13_Witness ==
    /\ pc = "read"
    /\ Len(written) = 9
    /\ written[2] = 2 /\ written[9] = 1
    /\ Len(reads) = 18

(***************************************************************************)
(* The four-symbol table of TEST(hctree_build_multiple_symbols): build,    *)
(* encode up to MaxScenarioEnc symbols of the table, flush, decode.        *)
(***************************************************************************)
MaxScenarioEnc == 4

ScenarioSymbols == {65, 66, 67, 68}

\* freqs['A'] = 10; freqs['B'] = 5; freqs['C'] = 3; freqs['D'] = 2;
ScenarioFreqs ==
    [s \in Symbols |-> IF s = 65 THEN 10 ELSE IF s = 66 THEN 5
                       ELSE IF s = 67 THEN 3 ELSE IF s = 68 THEN 2 ELSE 0]

ScenarioInit ==
    /\ pc = "build1"
    /\ ret = <<"build2", "encode">>
    /\ freqs = ScenarioFreqs
    /\ freqs2 = freqs
    /\ hufftree = NewHCTree
    /\ hufftree2 = NewHCTree
    /\ queue = {}
    /\ encoded = <<>>
    /\ decoded = <<>>
    /\ bos = NewBitOutputStream(<<>>)
    /\ bis = NoStream
    /\ args = <<>>
    /\ written = <<>>
    /\ flushes = 0
    /\ reads = <<>>
    /\ NoPrograms

ScenarioEncode ==
    /\ pc = "encode"
    /\ Len(encoded) < MaxScenarioEnc
    /\ \E symbol \in ScenarioSymbols :
          /\ bos' = encode(hufftree, symbol, bos)
          /\ hufftree' = encodeThis(hufftree, symbol)
          /\ encoded' = Append(encoded, symbol)
    /\ UNCHANGED <<pc, ret, freqs, freqs2, hufftree2, queue, decoded,
                   bis, args, written, flushes, reads, progVars>>

ScenarioNext ==
    \/ \E w \in {1, 2} : BuildLeaves(w)
    \/ \E w \in {1, 2} : BuildMerge(w)
    \/ \E w \in {1, 2} : BuildFinish(w)
    \/ ScenarioEncode
    \/ FlushAndOpen
    \/ Decode

ScenarioSpec == ScenarioInit /\ [][ScenarioNext]_vars

CodeLength(t, s) == Len(encodeBits(t, s))

\* C14: the tree built from {'A':10, 'B':5, 'C':3, 'D':2} gives 'A' a 1-bit
\* code, the shortest, and 'C' and 'D' 3-bit codes, the longest; "AAAB"
\* encoded with it, flushed and decoded four times gives "AAAB" back.
C14_ScenarioCodesAndRoundTrip ==
    /\ \A w \in {1, 2} :
          Built(w) =>
              /\ CodeLength(TreeOf(w), 65) = 1
              /\ CodeLength(TreeOf(w), 67) = 3
              /\ CodeLength(TreeOf(w), 68) = 3
              /\ \A s \in ScenarioSymbols :
                    /\ CodeLength(TreeOf(w), s) >= 1
                    /\ CodeLength(TreeOf(w), s) <= 3
    /\ (ReadsEmitted /\ encoded = <<65, 65, 65, 66>> /\ Len(decoded) = 4)
          => Results(decoded) = encoded

C14_Witness ==
    /\ ReadsEmitted
    /\ freqs = ScenarioFreqs
    /\ encoded = <<65, 65, 65, 66>>
    /\ Results(decoded) = <<65, 65, 65, 66>>
    /\ CodeLength(hufftree, 65) = 1 /\ CodeLength(hufftree, 68) = 3

(***************************************************************************)
(* build alone, run on the encoder's and on the decoder's tree, for every  *)
(* table over Symbols with counts up to MaxFreq.                           *)
(***************************************************************************)
BuildInit ==
    /\ pc = "build1"
    /\ ret = <<"build2", "encode">>
    /\ freqs \in [Symbols -> 0..MaxFreq]
    /\ freqs2 = freqs
    /\ hufftree = NewHCTree
    /\ hufftree2 = NewHCTree
    /\ queue = {}
    /\ encoded = <<>>
    /\ decoded = <<>>
    /\ bos = NewBitOutputStream(<<>>)
    /\ bis = NoStream
    /\ args = <<>>
    /\ written = <<>>
    /\ flushes = 0
    /\ reads = <<>>
    /\ NoPrograms

BuildNext ==
    \/ \E w \in {1, 2} : BuildLeaves(w)
    \/ \E w \in {1, 2} : BuildMerge(w)
    \/ \E w \in {1, 2} : BuildFinish(w)

BuildSpec == BuildInit /\ [][BuildNext]_vars

(***************************************************************************)
(* Further claims about the tree.                                          *)
(***************************************************************************)
RECURSIVE Weight(_, _)
\* Sum of the counts of the symbols of S.
Weight(f, S) ==
    IF S = {} THEN 0
    ELSE LET s == SetMin(S) IN f[s] + Weight(f, S \ {s})

RECURSIVE PayloadBits(_, _, _)
\* Sum over the symbols s of S of f[s] * codeLength(s) in tree t.
PayloadBits(t, f, S) ==
    IF S = {} THEN 0
    ELSE LET s == SetMin(S)
         IN  f[s] * CodeLength(t, s) + PayloadBits(t, f, S \ {s})

RECURSIVE MinPayloadBits(_, _)
\* The least sum of f[s] * depth(s) over all full binary trees whose leaves
\* are the symbols of S: a one-leaf tree costs 0; any other tree splits S
\* into the leaves under its two children and adds one level to each.
MinPayloadBits(f, S) ==
    IF Cardinality(S) <= 1 THEN 0
    ELSE LET a == SetMin(S)
             splits == {A \in SUBSET S : a \in A /\ A # S}
             all == Weight(f, S)
             cost(A) == MinPayloadBits(f, A) + MinPayloadBits(f, S \ A) + all
         IN  SetMin({cost(A) : A \in splits})

\* C15: for a table with at least two non-zero counts, the tree that build
\* returns has a total payload length, the sum of freq[s] * codeLength(s),
\* that is the minimum over all full binary trees on the same symbols.
C15_BuildIsOptimal ==
    \A w \in {1, 2} :
        (pc = ret[w] /\ Cardinality(NonZero(FreqsOf(w))) >= 2) =>
            PayloadBits(TreeOf(w), FreqsOf(w), NonZero(FreqsOf(w)))
                = MinPayloadBits(FreqsOf(w), NonZero(FreqsOf(w)))

\* Counts 1, 1, 1, 1, 2, 2: the two frequent symbols get 2 bits, the four
\* rare ones 3 bits, 20 bits in all.
C15_Witness ==
    /\ pc = ret[2]
    /\ \A s \in {0, 65, 66, 67} : freqs2[s] = 1
    /\ freqs2[68] = 2 /\ freqs2[255] = 2
    /\ CodeLength(hufftree2, 255) = 2 /\ CodeLength(hufftree2, 0) = 3
    /\ PayloadBits(hufftree2, freqs2, Symbols) = 20
    /\ MinPayloadBits(freqs2, Symbols) = 20

\* C16: encode of a byte value whose count was zero writes nothing: the
\* writer's buffer, its position and the bytes already emitted are unchanged.
C16_AbsentSymbolIsNoOp ==
    [][ (pc = "encode" /\ Len(encoded') = Len(encoded) + 1
            /\ freqs[encoded'[Len(encoded')]] = 0)
          => (bos'.buf = bos.buf /\ bos'.bufi = bos.bufi /\ bos'.out = bos.out) ]_vars

\* A present symbol was encoded, then an absent one; bits are still buffered.
C16_Witness ==
    /\ pc = "encode"
    /\ Len(encoded) = 2
    /\ freqs[encoded[1]] # 0 /\ freqs[encoded[2]] = 0
    /\ bos.bufi = Len(encodeBits(hufftree, encoded[1]))
    /\ bos.bufi >= 1

\* The node that `extracted` is extracted before: no heavier than it, and of
\* a smaller symbol when of the same weight.
ExtractedBefore(nodes, extracted, e) ==
    /\ nodes[extracted].count <= nodes[e].count
    /\ nodes[e].count = nodes[extracted].count
          => nodes[e].symbol < nodes[extracted].symbol

\* C18: each of the two extractions of a merge step returns a node whose
\* weight is at most that of every node still queued and, among the queued
\* nodes of that lowest weight, the one with the largest symbol.
C18_ExtractionOrder ==
    [][ \A w \in {1, 2} :
          (pc = MergePc(w) /\ queue' # queue /\ pc' = pc) =>
              LET nodes == TreeOf(w).nodes
                  parent == (TreeOf(w).nodes')[Len(nodes) + 1]
                  first == parent.c0
                  sec == parent.c1
              IN  /\ first \in queue /\ sec \in queue \ {first}
                  /\ \A e \in queue \ {first} : ExtractedBefore(nodes, first, e)
                  /\ \A e \in queue \ {first, sec} : ExtractedBefore(nodes, sec, e)
                  /\ queue' = (queue \ {first, sec}) \cup {Len(nodes) + 1} ]_vars

\* Three leaves of weight 1 were queued and the two with the largest symbols
\* (66 and 255) have been merged, 255 extracted first.
C18_Witness ==
    /\ pc = "merge1"
    /\ NonZero(freqs) = {65, 66, 255}
    /\ \A s \in NonZero(freqs) : freqs[s] = 1
    /\ Len(hufftree.nodes) = 4
    /\ hufftree.nodes[4].c0 = hufftree.leaves[255]
    /\ hufftree.nodes[4].c1 = hufftree.leaves[66]
    /\ queue = {hufftree.leaves[65], 4}

RECURSIVE DownPaths(_, _, _)
\* The number of downward paths from node `from` to node `target`.
DownPaths(t, from, target) ==
    IF from = 0 THEN 0
    ELSE (IF from = target THEN 1 ELSE 0)
            + DownPaths(t, t.nodes[from].c0, target)
            + DownPaths(t, t.nodes[from].c1, target)

NodeIds(t) == 1..Len(t.nodes)

\* C19: after build, leaves[s] is present iff freqs[s] is non-zero; a present
\* leaf is childless and reachable from root by exactly one downward path;
\* a node with a child has two distinct children whose parent links point
\* back to it; root has no parent.
C19_TreeShape ==
    \A w \in {1, 2} :
        Built(w) =>
            LET t == TreeOf(w)
                f == FreqsOf(w)
            IN  /\ \A s \in Symbols : (t.leaves[s] # 0) <=> (f[s] # 0)
                /\ \A s \in NonZero(f) :
                      /\ t.leaves[s] \in NodeIds(t)
                      /\ t.nodes[t.leaves[s]].c0 = 0
                      /\ t.nodes[t.leaves[s]].c1 = 0
                      /\ DownPaths(t, t.root, t.leaves[s]) = 1
                /\ \A n \in NodeIds(t) :
                      (t.nodes[n].c0 # 0 \/ t.nodes[n].c1 # 0) =>
                          /\ t.nodes[n].c0 \in NodeIds(t)
                          /\ t.nodes[n].c1 \in NodeIds(t)
                          /\ t.nodes[n].c0 # t.nodes[n].c1
                          /\ t.nodes[t.nodes[n].c0].p = n
                          /\ t.nodes[t.nodes[n].c1].p = n
                /\ t.root # 0 => t.nodes[t.root].p = 0

\* Six leaves under five internal nodes.
C19_Witness ==
    /\ Built(2)
    /\ NonZero(freqs2) = Symbols
    /\ Len(hufftree2.nodes) = 11
    /\ hufftree2.root = 11
    /\ \A s \in Symbols : DownPaths(hufftree2, 11, hufftree2.leaves[s]) = 1

\* C20: every internal node's weight is the sum of its two children's
\* weights, and after build on a non-empty table the root's weight is the sum
\* of all entries of the table.
C20_WeightsAddUp ==
    \A w \in {1, 2} :
        LET t == TreeOf(w)
            f == FreqsOf(w)
        IN  /\ \A n \in NodeIds(t) :
                  t.nodes[n].c0 # 0 =>
                      t.nodes[n].count = t.nodes[t.nodes[n].c0].count
                                            + t.nodes[t.nodes[n].c1].count
            /\ (Built(w) /\ NonZero(f) # {}) =>
                  /\ t.root # 0
                  /\ t.nodes[t.root].count = Weight(f, Symbols)

\* Counts 1, 2, 2, 2 under a root of weight 7.
C20_Witness ==
    /\ Built(1)
    /\ freqs[0] = 1 /\ freqs[65] = 2 /\ freqs[66] = 2 /\ freqs[255] = 2
    /\ hufftree.root = 7
    /\ hufftree.nodes[7].count = 7
    /\ hufftree.nodes[hufftree.nodes[7].c0].count
          + hufftree.nodes[hufftree.nodes[7].c1].count = 7

(***************************************************************************)
(* Further claims about the programs.                                      *)
(***************************************************************************)
RECURSIVE BitsRead(_)
\* The bits the decode calls recorded in d consumed.
BitsRead(d) == IF d = <<>> THEN 0 ELSE Head(d).nbits + BitsRead(Tail(d))

RECURSIVE BitsWritten(_, _)
\* The bits the encode calls for the symbols of e passed to writeBit.
BitsWritten(t, e) ==
    IF e = <<>> THEN 0 ELSE CodeLength(t, Head(e)) + BitsWritten(t, Tail(e))

\* C17: uncompress performs exactly as many decodes as the sum of the header's
\* frequencies and writes that many bytes; on a file compress wrote, no decode
\* runs into the end of the stream or consumes a pad bit.
C17_DecodesSumOfHeader ==
    /\ pc # "crashed"
    /\ pc \in {"build2", "merge2", "decodeLoop", "done"} =>
          /\ fsize2 = Weight(freqs2, Symbols)
          /\ Len(decoded) = idx /\ Len(restored) = idx
          /\ idx <= fsize2
          /\ \A k \in 1..Len(decoded) : ~decoded[k].eof
          /\ BitsRead(decoded) <= BitsWritten(hufftree, encoded)
    /\ pc = "done" =>
          /\ Len(decoded) = Weight(freqs2, Symbols)
          /\ Len(restored) = Weight(freqs2, Symbols)

\* Three symbols of one bit each were decoded; five pad bits stay unread.
C17_Witness ==
    /\ pc = "done"
    /\ Weight(freqs2, Symbols) = 3
    /\ Len(restored) = 3
    /\ BitsRead(decoded) = 3
    /\ bis.bufi = 3

(***************************************************************************)
(* Frame and bounds claims.                                                *)
(***************************************************************************)
\* C21: once both trees are built, no encode or decode call (encode of an
\* absent symbol and decode that runs into the end of the data included)
\* changes root, leaves or any node's count, symbol, c0, c1 or p.
C21_TreeReadOnlyAfterBuild ==
    [][ (pc \in {"encode", "decode"}) =>
          (/\ hufftree'.root = hufftree.root
           /\ hufftree'.leaves = hufftree.leaves
           /\ hufftree'.nodes = hufftree.nodes
           /\ hufftree2'.root = hufftree2.root
           /\ hufftree2'.leaves = hufftree2.leaves
           /\ hufftree2'.nodes = hufftree2.nodes) ]_vars

\* An absent symbol was encoded, a decode met the end of the data after
\* reading a bit, and the decoder's tree is still the one build left.
C21_Witness ==
    /\ pc = "decode"
    /\ hufftree.root # 0
    /\ \E k \in 1..Len(encoded) : freqs[encoded[k]] = 0
    /\ \E k \in 1..Len(decoded) : decoded[k].eof /\ decoded[k].nbits >= 1
    /\ hufftree2 = hufftree

\* C22: under any interleaving of writeBit and flush, the writer's position
\* stays in 0..8.  A writeBit call that finds the buffer full (position 8)
\* first emits it, once, and that byte holds the last eight bits written; the
\* bit is then stored at index 7 - position with position in 0..7, the bits
\* stored before it are kept, and the position grows by one.
C22_WriterBufferBounds ==
    [][ /\ bos.bufi \in 0..8 /\ bos'.bufi \in 0..8
        /\ (Len(written') = Len(written) + 1) =>
              LET full == bos.bufi = 8
                  pos == IF full THEN 0 ELSE bos.bufi
                  n == Len(written)
              IN  /\ full => /\ bos'.out = Append(bos.out, bos.buf)
                             /\ \A j \in 0..7 :
                                   BitOf(bos.buf, 7 - j) = written[n - 7 + j] % 2
                  /\ ~full => bos'.out = bos.out
                  /\ (7 - pos) \in 0..7
                  /\ bos'.bufi = pos + 1
                  /\ BitOf(bos'.buf, 7 - pos) = written'[n + 1] % 2
                  /\ \A j \in 0..(pos - 1) :
                        BitOf(bos'.buf, 7 - j) = BitOf(bos.buf, 7 - j)
                  /\ \A j \in (pos + 1)..7 : BitOf(bos'.buf, 7 - j) = 0
      ]_vars

\* Nine bits written without a flush: the ninth found the buffer full, the
\* first byte went out once and the ninth bit is alone in the buffer.
C22_Witness ==
    /\ pc = "write"
    /\ flushes = 0
    /\ Len(written) = 9
    /\ written[1] % 2 = 1 /\ written[9] % 2 = 1
    /\ Len(bos.out) = 1 /\ bos.out[1] >= 128
    /\ bos.bufi = 1 /\ bos.buf = 128

\* C23: throughout build's merge loop the queued nodes have pairwise distinct
\* symbols, so of any two distinct queued nodes exactly one precedes the other
\* under the comparator, and the node to extract next is unique.
C23_QueuedSymbolsDistinct ==
    \A w \in {1, 2} :
        pc = MergePc(w) =>
            LET nodes == TreeOf(w).nodes
            IN  /\ \A a, b \in queue :
                      a # b =>
                          /\ nodes[a].symbol # nodes[b].symbol
                          /\ HCNodePtrComp(nodes, a, b) # HCNodePtrComp(nodes, b, a)
                /\ queue # {} => Cardinality(Tops(nodes, queue)) = 1

\* A merged node and a leaf of the same weight are queued together.
C23_Witness ==
    /\ pc = "merge1"
    /\ \E a, b \in queue :
          /\ hufftree.nodes[a].c0 # 0
          /\ hufftree.nodes[b].c0 = 0
          /\ hufftree.nodes[a].count = hufftree.nodes[b].count
          /\ hufftree.nodes[a].symbol > hufftree.nodes[b].symbol

=============================================================================
